---- MODULE Spec2Model ----
(***************************************************************************)
(* Embedding store of model.nvim (python3/store.py): a list of items and a *)
(* parallel matrix of vectors, kept in memory and in .llm_store.json.      *)
(*                                                                         *)
(* Python list and array positions are 0-based; the sequences here are     *)
(* 1-based, so position p of the source is position p + 1 of the model.    *)
(* A text is the sequence of its utf-8 bytes.  An embedding component is   *)
(* an integer number of float64 steps; float32 keeps every second step.    *)
(***************************************************************************)
EXTENDS Integers, Sequences, FiniteSets, TLC

\* ---------------------------------------------------------------- bounds
\* longest item list one update call is given
MaxItems == 2
\* most vector rows, and most items, the store may come to hold
MaxRows == 3
\* the same, where the item lists range over WideIds
MaxWideRows == 5
\* largest result count a query asks for
MaxCount == 2

\* ------------------------------------------------------ program constants
INPUT_TOKEN_LIMIT == 8192

\* ------------------------------------------------------------- the texts
Ids == {"A", "B"}
WideIds == {"A", "B", "C", "D"}
TextOne == <<2, 3, 2>>
TextTwo == <<7>>
\* same adler32 as TextOne
TextTwin == <<3, 1, 3>>
\* a text of more tokens than the embedder takes
TextLong == <<9, 9>>
Contents == {TextOne, TextTwin, TextTwo, TextLong}
Prompts == {<<5>>, <<6>>}
Path == ".llm_store.json"

\* ---------------------------------------------------------------- helpers
Max(S) == CHOOSE x \in S : \A y \in S : y <= x
Min2(a, b) == IF a <= b THEN a ELSE b
Reverse(s) == [i \in 1..Len(s) |-> s[Len(s) + 1 - i]]
DelAt(s, i) == SubSeq(s, 1, i - 1) \o SubSeq(s, i + 1, Len(s))
UpTo(n) == [i \in 1..n |-> i]
Perms(n) == {p \in [1..n -> 1..n] : \A i, j \in 1..n : i # j => p[i] # p[j]}
SeqsUpTo(S, n) == UNION {[1..k -> S] : k \in 0..n}

\* ------------------------------------------------------------ collaborators
\* tiktoken's token count of a text
count_tokens(text) == IF text = TextLong THEN INPUT_TOKEN_LIMIT + 1 ELSE Len(text)

\* what openai.Embedding.create returns for one input: a vector of float64
Embedding(text) ==
  IF text = TextOne THEN <<4, 1>>
  ELSE IF text = TextTwin THEN <<5, 2>>
  ELSE IF text = TextTwo THEN <<2, 4>>
  ELSE IF text = <<5>> THEN <<3, 0>>
  ELSE <<3, 3>>

\* ---------------------------------------------------------- hash_content
\* zlib.adler32: two sums modulo 65521, the second in the high 16 bits
RECURSIVE AdlerFold(_, _, _, _)
AdlerFold(data, i, a, b) ==
  IF i > Len(data) THEN b * 65536 + a
  ELSE LET a1 == (a + data[i]) % 65521
           b1 == (b + a1) % 65521
       IN  AdlerFold(data, i + 1, a1, b1)

adler32(data) == AdlerFold(data, 1, 1, 0)

\* f'{n:08x}': the eight hexadecimal digits of n, most significant first
Hex8(n) == [i \in 1..8 |-> (n \div (16 ^ (8 - i))) % 16]

hash_content(text) == Hex8(adler32(text))

Texts == Contents
\* hash_content over the texts of the model, computed once
HashOf == [text \in Texts |-> hash_content(text)]

\* ------------------------------------------------------------------ items
Item(id, content) == [id |-> id, content |-> content, meta |-> "file"]

as_store_item(item) ==
  [id |-> item.id, content |-> item.content, meta |-> item.meta,
   content_hash |-> HashOf[item.content], embedder |-> "openai_ada_002"]

as_store_items(items) == [i \in 1..Len(items) |-> as_store_item(items[i])]

\* ---------------------------------------------------------------- vectors
\* store['vectors']: None, the one-dimensional empty np.array([]), or a
\* two-dimensional array of `cols` columns
VNone == [kind |-> "None", cols |-> 0, rows |-> <<>>]
VFlat == [kind |-> "flat", cols |-> 0, rows |-> <<>>]
Matrix(cols, rows) == [kind |-> "matrix", cols |-> cols, rows |-> rows]

\* np.array(rows) of a list of equally long lists
np_array(rows) == IF rows = <<>> THEN VFlat ELSE Matrix(Len(rows[1]), rows)

\* [v.tolist() for v in vectors]
tolist(vectors) == vectors.rows

\* np.empty([0, d], dtype=np.float32)
np_empty(d) == Matrix(d, <<>>)

\* .astype(np.float32)
astype_float32(vec) == [i \in 1..Len(vec) |-> 2 * (vec[i] \div 2)]

\* ------------------------------------------------------------- get_embeddings
\* a get_embeddings that sends one request for each input: C18 tells it
\* from get_embeddings
get_embeddings_each(inputs) ==
  IF inputs = <<>> THEN [err |-> "", embeddings |-> <<>>, requests |-> <<>>]
  ELSE IF \A i \in 1..Len(inputs) : count_tokens(inputs[i]) < INPUT_TOKEN_LIMIT
    THEN [err |-> "",
          embeddings |-> [i \in 1..Len(inputs) |-> Embedding(inputs[i])],
          requests |-> [i \in 1..Len(inputs) |-> <<inputs[i]>>]]
    ELSE [err |-> "ValueError", embeddings |-> <<>>, requests |-> <<>>]

\* a get_embeddings that sends the batch when any one input is within the
\* limit: C7 tells it from get_embeddings
get_embeddings_any(inputs) ==
  IF inputs = <<>> THEN [err |-> "", embeddings |-> <<>>, requests |-> <<>>]
  ELSE IF \E i \in 1..Len(inputs) : count_tokens(inputs[i]) < INPUT_TOKEN_LIMIT
    THEN [err |-> "",
          embeddings |-> [i \in 1..Len(inputs) |-> Embedding(inputs[i])],
          requests |-> <<inputs>>]
    ELSE [err |-> "ValueError", embeddings |-> <<>>, requests |-> <<>>]

\* err: the exception raised ("" for none); requests: the batches sent to
\* the embedding API by this call
get_embeddings(inputs) ==
  IF inputs = <<>> THEN [err |-> "", embeddings |-> <<>>, requests |-> <<>>]
  ELSE IF \A i \in 1..Len(inputs) : count_tokens(inputs[i]) < INPUT_TOKEN_LIMIT
    THEN [err |-> "",
          embeddings |-> [i \in 1..Len(inputs) |-> Embedding(inputs[i])],
          requests |-> <<inputs>>]
    ELSE [err |-> "ValueError", embeddings |-> <<>>, requests |-> <<>>]

\* ---------------------------------------------------------------- the diff
HasId(items, id) == \E j \in 1..Len(items) : items[j].id = id

\* {x['id']: idx for idx, x in enumerate(items)}[id]: a later entry of the
\* same id overwrites an earlier one
IdToIdx(items, id) == Max({j \in 1..Len(items) : items[j].id = id})

\* {x['id']: x['content_hash'] for x in items}[id]
IdToContentHash(items, id) == items[IdToIdx(items, id)].content_hash

\* a diff that reports the new ids alone: C5 tells it from
\* get_stale_or_new_item_idxs
get_new_item_idxs(items, st) ==
  LET new(idx) == ~HasId(st.items, items[idx].id)
  IN  SelectSeq(UpTo(Len(items)), new)

get_stale_or_new_item_idxs(items, st) ==
  LET stale(idx) ==
        \/ ~HasId(st.items, items[idx].id)
        \/ items[idx].content_hash # IdToContentHash(st.items, items[idx].id)
  IN  SelectSeq(UpTo(Len(items)), stale)

get_removed_item_store_idx(items, st) ==
  LET current_ids == {items[i].id : i \in 1..Len(items)}
      gone(idx) == st.items[idx].id \notin current_ids
  IN  SelectSeq(UpTo(Len(st.items)), gone)

\* ------------------------------------------------------------ numpy calls
\* np.delete(arr, idx, axis=0): a NEW array without row idx; arr itself is
\* left as it is.  An idx beyond the rows raises IndexError.
np_delete(arr, idx) ==
  IF idx > Len(arr.rows) THEN [err |-> "IndexError", value |-> arr]
  ELSE [err |-> "", value |-> [arr EXCEPT !.rows = DelAt(arr.rows, idx)]]

\* np.vstack((arr, embedding)): both are made two-dimensional (np.array([])
\* becomes one row of no columns) and must then agree in their columns; the
\* result takes the wider type, float64
\* np.vstack((embedding, arr)), the operands swapped: C3 tells it from
\* np_vstack
np_vstack_front(arr, embedding) ==
  LET cols == arr.cols
      rows == IF arr.kind = "flat" THEN <<<<>>>> ELSE arr.rows
  IN  IF cols # Len(embedding) THEN [err |-> "ValueError", value |-> arr]
      ELSE [err |-> "", value |-> Matrix(cols, <<embedding>> \o rows)]

np_vstack(arr, embedding) ==
  LET cols == arr.cols
      rows == IF arr.kind = "flat" THEN <<<<>>>> ELSE arr.rows
  IN  IF cols # Len(embedding) THEN [err |-> "ValueError", value |-> arr]
      ELSE [err |-> "", value |-> Matrix(cols, Append(rows, embedding))]

\* arr[idx] = row
np_setrow(arr, idx, row) ==
  IF idx > Len(arr.rows) THEN [err |-> "IndexError", value |-> arr]
  ELSE IF arr.cols # Len(row) THEN [err |-> "ValueError", value |-> arr]
  ELSE [err |-> "", value |-> [arr EXCEPT !.rows[idx] = row]]

RECURSIVE Dot(_, _, _)
Dot(u, v, i) == IF i > Len(u) THEN 0 ELSE u[i] * v[i] + Dot(u, v, i + 1)

\* np.dot(arr, q.T) of a matrix, or of np.array([]), and a vector
np_dot(arr, q) ==
  IF arr.cols # Len(q) THEN [err |-> "ValueError", value |-> <<>>]
  ELSE [err |-> "", value |-> [r \in 1..Len(arr.rows) |-> Dot(arr.rows[r], q, 1)]]

\* ------------------------------------------------------------ update_store
\* lines 192-196: for idx in idxs: del store['items'][idx];
\* np.delete(store['vectors'], idx, axis=0)
RECURSIVE RemoveLoop(_, _, _)
RemoveLoop(st, idxs, k) ==
  IF k > Len(idxs) THEN [err |-> "", store |-> st]
  ELSE LET idx == idxs[k] IN
    IF idx > Len(st.items) THEN [err |-> "IndexError", store |-> st]
    ELSE LET st1 == [st EXCEPT !.items = DelAt(st.items, idx)]
             deleted == np_delete(st.vectors, idx)
         IN  IF deleted.err # "" THEN [err |-> deleted.err, store |-> st1]
             ELSE RemoveLoop(st1, idxs, k + 1)

\* lines 200-212: replace the entry id_to_idx names, or append; id_to_idx is
\* the mapping computed once before the loop
RECURSIVE UpsertLoop(_, _, _, _, _, _)
UpsertLoop(st, id_items, items, needs_update_idx, embeddings, i) ==
  IF i > Len(embeddings) THEN [err |-> "", store |-> st]
  ELSE LET item == items[needs_update_idx[i]]
           embedding == embeddings[i]
       IN
    IF HasId(id_items, item.id)
    THEN LET idx == IdToIdx(id_items, item.id)
             st1 == [st EXCEPT !.items[idx] = item]
             put == np_setrow(st.vectors, idx, astype_float32(embedding))
         IN  IF put.err # "" THEN [err |-> put.err, store |-> st1]
             ELSE UpsertLoop([st1 EXCEPT !.vectors = put.value], id_items,
                             items, needs_update_idx, embeddings, i + 1)
    ELSE LET st1 == [st EXCEPT !.items = Append(st.items, item)]
             stacked == np_vstack(st.vectors, embedding)
         IN  IF stacked.err # "" THEN [err |-> stacked.err, store |-> st1]
             ELSE UpsertLoop([st1 EXCEPT !.vectors = stacked.value], id_items,
                             items, needs_update_idx, embeddings, i + 1)

\* lines 186-212, after the embeddings came back
Mutate(items, st, sync, needs_update_idx, embeddings) ==
  LET st0 == IF st.vectors.kind = "None"
             THEN [st EXCEPT !.vectors = np_empty(Len(embeddings[1]))]
             ELSE st
      removed == IF sync
                 THEN RemoveLoop(st0, get_removed_item_store_idx(items, st0), 1)
                 ELSE [err |-> "", store |-> st0]
  IN  IF removed.err # "" THEN removed
      ELSE UpsertLoop(removed.store, removed.store.items, items,
                      needs_update_idx, embeddings, 1)

\* result: the returned ids; err: the exception raised; store: the store
\* as the call leaves it; requests: the batches sent to the embedding API
update_store(raw_items, st, sync) ==
  LET items == as_store_items(raw_items)
      needs_update_idx == get_stale_or_new_item_idxs(items, st)
      needs_update_content ==
        [i \in 1..Len(needs_update_idx) |-> items[needs_update_idx[i]].content]
      got == get_embeddings(needs_update_content)
  IN  IF Len(needs_update_idx) = 0
      THEN [result |-> <<>>, err |-> "", store |-> st, requests |-> <<>>]
      ELSE IF got.err # ""
      THEN [result |-> <<>>, err |-> got.err, store |-> st, requests |-> got.requests]
      ELSE LET done == Mutate(items, st, sync, needs_update_idx, got.embeddings)
           IN  [result |-> IF done.err = ""
                           THEN [i \in 1..Len(needs_update_idx) |->
                                   items[needs_update_idx[i]].id]
                           ELSE <<>>,
                err |-> done.err, store |-> done.store, requests |-> got.requests]

\* ------------------------------------------------------------- persistence
Absent == [kind |-> "absent", items |-> <<>>, vectors |-> <<>>]
Corrupt == [kind |-> "corrupt", items |-> <<>>, vectors |-> <<>>]
Json(items, vectors) == [kind |-> "json", items |-> items, vectors |-> vectors]

NoStore == [abs_path |-> "", items |-> <<>>, vectors |-> VNone]
\* a Store the caller builds with vectors None, as the type allows
BuiltStore == [abs_path |-> Path, items |-> <<>>, vectors |-> VNone]

initialize_empty_store(abs_path) ==
  [abs_path |-> abs_path, items |-> <<>>, vectors |-> np_array(<<>>)]

\* FileNotFoundError is caught; what json.loads raises is not
load_or_initialize_store(file) ==
  IF file.kind = "absent"
  THEN [err |-> "", store |-> initialize_empty_store(Path)]
  ELSE IF file.kind = "corrupt"
  THEN [err |-> "JSONDecodeError", store |-> NoStore]
  ELSE [err |-> "",
        store |-> [abs_path |-> Path, items |-> file.items,
                   vectors |-> np_array(file.vectors)]]

\* the file after save_store(st), given the file before it
save_store(st, file) ==
  IF st.vectors.kind = "None" THEN file
  ELSE Json(st.items, tolist(st.vectors))

\* an update_store_and_save that saves whatever update_store returned: C6
\* tells it from update_store_and_save
update_store_and_save_always(items, st, sync, file) ==
  LET updated == update_store(items, st, sync)
      save == updated.err = ""
  IN  [result |-> updated.result, err |-> updated.err, store |-> updated.store,
       requests |-> updated.requests,
       file |-> IF save THEN save_store(updated.store, file) ELSE file,
       wrote |-> save /\ updated.store.vectors.kind # "None"]

\* an update_store_and_save that saves when more than one id was updated:
\* C8 tells it from update_store_and_save
update_store_and_save_many(items, st, sync, file) ==
  LET updated == update_store(items, st, sync)
      save == updated.err = "" /\ Len(updated.result) > 1
  IN  [result |-> updated.result, err |-> updated.err, store |-> updated.store,
       requests |-> updated.requests,
       file |-> IF save THEN save_store(updated.store, file) ELSE file,
       wrote |-> save /\ updated.store.vectors.kind # "None"]

\* wrote: whether save_store was called and wrote the file
update_store_and_save(items, st, sync, file) ==
  LET updated == update_store(items, st, sync)
      save == updated.err = "" /\ Len(updated.result) > 0
  IN  [result |-> updated.result, err |-> updated.err, store |-> updated.store,
       requests |-> updated.requests,
       file |-> IF save THEN save_store(updated.store, file) ELSE file,
       wrote |-> save /\ updated.store.vectors.kind # "None"]

\* -------------------------------------------------------------- query_store
\* np.argsort(similarities): positions in ascending order of similarity; the
\* default sort is not stable, so equal similarities come in any order
ArgSorts(similarities) ==
  {p \in Perms(Len(similarities)) :
     \A i, j \in 1..Len(similarities) :
       i < j => similarities[p[i]] <= similarities[p[j]]}

NoFilter == [on |-> FALSE, accept |-> {}]
\* a predicate on items: the ids it accepts
Filter(accept) == [on |-> TRUE, accept |-> accept]

\* lines 245-256
RECURSIVE FilterLoop(_, _, _, _, _, _)
FilterLoop(st, ranks, count, filter, k, results) ==
  IF k > Len(ranks) THEN [err |-> "", result |-> results]
  ELSE IF ranks[k] > Len(st.items) THEN [err |-> "IndexError", result |-> <<>>]
  ELSE LET item == st.items[ranks[k]]
           results1 == IF item.id \in filter.accept
                       THEN Append(results, item) ELSE results
       IN  IF Len(results1) >= count THEN [err |-> "", result |-> results1]
           ELSE FilterLoop(st, ranks, count, filter, k + 1, results1)

\* line 243: [store['items'][idx] for idx in ranks[:count]]
TopLoop(st, ranks, count) ==
  LET top == SubSeq(ranks, 1, Min2(count, Len(ranks)))
  IN  IF \E k \in 1..Len(top) : top[k] > Len(st.items)
      THEN [err |-> "IndexError", result |-> <<>>]
      ELSE [err |-> "", result |-> [k \in 1..Len(top) |-> st.items[top[k]]]]

\* lines 237-239
Similarities(prompt, st) ==
  LET got == get_embeddings(<<prompt>>)
  IN  IF st.vectors.kind = "None"
      THEN [err |-> "AssertionError", value |-> <<>>, requests |-> <<>>]
      ELSE IF got.err # ""
      THEN [err |-> got.err, value |-> <<>>, requests |-> got.requests]
      ELSE LET dot == np_dot(st.vectors, astype_float32(got.embeddings[1]))
           IN  [err |-> dot.err, value |-> dot.value, requests |-> got.requests]

\* sorted: what np.argsort returned for the similarities
query_store(prompt, count, st, filter, sorted) ==
  LET sims == Similarities(prompt, st)
      ranks == Reverse(sorted)
      found == IF filter.on THEN FilterLoop(st, ranks, count, filter, 1, <<>>)
               ELSE TopLoop(st, ranks, count)
  IN  IF sims.err # ""
      THEN [err |-> sims.err, result |-> <<>>, requests |-> sims.requests]
      ELSE [err |-> found.err, result |-> found.result, requests |-> sims.requests]

\* ---------------------------------------------------------------- the state
\* store: the Store dict the caller holds (abs_path "" before there is one)
\* disk:  the file .llm_store.json
\* last:  the call that has just returned or raised, as the caller saw it
\*        (op "none" once the caller has gone on)
VARIABLES store, disk, last
vars == <<store, disk, last>>

Items == {Item(id, content) : id \in Ids, content \in Contents}
\* what ingest_files hands over: one item per path, no path twice
ItemLists ==
  {items \in SeqsUpTo(Items, MaxItems) :
     \A i, j \in 1..Len(items) : i # j => items[i].id # items[j].id}
Filters == {NoFilter} \cup {Filter(Ids \ skip) : skip \in {{}} \cup {{id} : id \in Ids}}

Aligned(st) == Len(st.items) = Len(st.vectors.rows)

Call(op, items, sync, prompt, count, filter, out, wrote, again) ==
  [op |-> op, items |-> items, sync |-> sync, prompt |-> prompt,
   count |-> count, filter |-> filter, result |-> out.result, err |-> out.err,
   requests |-> out.requests, wrote |-> wrote, again |-> again]

Nothing == [result |-> <<>>, err |-> "", requests |-> <<>>]
Idle == Call("none", <<>>, FALSE, <<>>, 0, NoFilter, Nothing, FALSE, FALSE)

Init ==
  /\ store \in {NoStore, BuiltStore}
  /\ disk \in {Absent, Corrupt}
  /\ last = Idle

Load ==
  LET loaded == load_or_initialize_store(disk)
  IN  /\ last = Idle
      /\ store' = IF loaded.err = "" THEN loaded.store ELSE store
      /\ disk' = disk
      /\ last' = Call("load", <<>>, FALSE, <<>>, 0, NoFilter,
                      [Nothing EXCEPT !.err = loaded.err], FALSE, FALSE)

Update(items, sync, again, cap) ==
  LET out == update_store_and_save(items, store, sync, disk)
  IN  /\ store.abs_path # ""
      /\ Len(out.store.items) <= cap
      /\ Len(out.store.vectors.rows) <= cap
      /\ store' = out.store
      /\ disk' = out.file
      /\ last' = Call("update", items, sync, <<>>, 0, NoFilter, out, out.wrote, again)

UpdateStoreAndSave(items, sync) ==
  /\ last = Idle
  /\ Update(items, sync, FALSE, MaxRows)

\* the caller makes the update that has just returned once more, with the
\* same items and the same mode
UpdateAgain ==
  /\ last.op = "update" /\ last.err = "" /\ ~last.again
  /\ Update(last.items, last.sync, TRUE, MaxRows)

SaveStore ==
  /\ last = Idle
  /\ store.abs_path # ""
  /\ disk' = save_store(store, disk)
  /\ last' = Call("save", <<>>, FALSE, <<>>, 0, NoFilter, Nothing,
                  store.vectors.kind # "None", FALSE)
  /\ UNCHANGED store

QueryStore(prompt, count, filter) ==
  /\ last = Idle
  /\ store.abs_path # ""
  /\ \E sorted \in ArgSorts(Similarities(prompt, store).value) :
       last' = Call("query", <<>>, FALSE, prompt, count, filter,
                    query_store(prompt, count, store, filter, sorted), FALSE, FALSE)
  /\ UNCHANGED <<store, disk>>

\* the caller takes the result, or the exception, and goes on
Return ==
  /\ last # Idle
  /\ last' = Idle
  /\ UNCHANGED <<store, disk>>

Next ==
  \/ Load
  \/ \E items \in ItemLists, sync \in BOOLEAN : UpdateStoreAndSave(items, sync)
  \/ UpdateAgain
  \/ SaveStore
  \/ \E prompt \in Prompts, count \in 0..MaxCount, filter \in Filters :
       QueryStore(prompt, count, filter)
  \/ Return

Spec == Init /\ [][Next]_vars

\* ------------------------------------------------- more paths, one content
\* The same store under item lists over four ids, all of one content: an
\* item is stale only when its id is new.
WideLists ==
  {items \in SeqsUpTo({Item(id, TextOne) : id \in WideIds}, MaxItems) :
     \A i, j \in 1..Len(items) : i # j => items[i].id # items[j].id}

UpdateWide(items, sync) ==
  /\ last = Idle
  /\ Update(items, sync, FALSE, MaxWideRows)

UpdateWideAgain ==
  /\ last.op = "update" /\ last.err = "" /\ ~last.again
  /\ Update(last.items, last.sync, TRUE, MaxWideRows)

NextWide ==
  \/ Load
  \/ \E items \in WideLists, sync \in BOOLEAN : UpdateWide(items, sync)
  \/ UpdateWideAgain
  \/ Return

SpecWide == Init /\ [][NextWide]_vars

\* ------------------------------------------------- the diff on its own
\* get_stale_or_new_item_idxs applied to hashed item lists (any, an id may
\* come twice) and to the stores a correct run leaves: ids once, each hash
\* that of the content, each row the embedding of the content.
DiffTexts == {TextOne, TextTwin, TextTwo}

DiffStores ==
  {[abs_path |-> Path, items |-> as_store_items(items),
    vectors |-> np_array([i \in 1..Len(items) |-> Embedding(items[i].content)])] :
     items \in {l \in SeqsUpTo({Item(id, text) : id \in Ids, text \in DiffTexts}, MaxItems) :
                  \A i, j \in 1..Len(l) : i # j => l[i].id # l[j].id}}

DiffLists == SeqsUpTo({Item(id, text) : id \in Ids, text \in DiffTexts}, MaxItems)

InitDiff ==
  /\ store \in DiffStores
  /\ disk = Absent
  /\ last = Idle

StaleOrNew(items) ==
  /\ last = Idle
  /\ last' = Call("diff", items, FALSE, <<>>, 0, NoFilter,
                  [Nothing EXCEPT
                     !.result = get_stale_or_new_item_idxs(as_store_items(items), store)],
                  FALSE, FALSE)
  /\ UNCHANGED <<store, disk>>

NextDiff ==
  \/ \E items \in DiffLists : StaleOrNew(items)
  \/ Return

SpecDiff == InitDiff /\ [][NextDiff]_vars

\* ------------------------------------------- the caller keeps its dicts
\* The caller holds one dict for each id and passes these same dicts to
\* every update.  as_store_items writes content_hash into the dict it is
\* given (lines 154-162) and update_store puts that dict into
\* store['items'] (lines 208, 211): a stored item is the caller's dict of
\* its id, and what either does to it the other sees.
HeldTexts == {TextOne, TextTwo, TextLong}

HeldLists ==
  {items \in SeqsUpTo({Item(id, text) : id \in Ids, text \in HeldTexts}, MaxItems) :
     \A i, j \in 1..Len(items) : i # j => items[i].id # items[j].id}

InitHeld ==
  /\ store = BuiltStore
  /\ disk = Absent
  /\ last = Idle

\* the caller's item['content'] = content on its dict of a stored id
SetContent(id, content) ==
  /\ last = Idle
  /\ \E j \in 1..Len(store.items) :
       store.items[j].id = id /\ store.items[j].content # content
  /\ store' = [store EXCEPT !.items =
                 [j \in 1..Len(store.items) |->
                    IF store.items[j].id = id
                    THEN [store.items[j] EXCEPT !.content = content]
                    ELSE store.items[j]]]
  /\ UNCHANGED <<disk, last>>

\* line 174 for the dicts that are in the store: each gets the hash of the
\* content it has now
HashInPlace(items, st) ==
  [st EXCEPT !.items =
     [j \in 1..Len(st.items) |->
        IF HasId(items, st.items[j].id)
        THEN as_store_item(st.items[j])
        ELSE st.items[j]]]

\* update_store_and_save of the caller's dicts: one of a stored id has the
\* content the stored item has
UpdateHeld(items, sync) ==
  LET out == update_store_and_save(items, HashInPlace(items, store), sync, disk)
  IN  /\ last = Idle
      /\ \A i \in 1..Len(items), j \in 1..Len(store.items) :
           store.items[j].id = items[i].id
             => store.items[j].content = items[i].content
      /\ Len(out.store.items) <= MaxRows
      /\ Len(out.store.vectors.rows) <= MaxRows
      /\ store' = out.store
      /\ disk' = out.file
      /\ last' = Call("update", items, sync, <<>>, 0, NoFilter, out, out.wrote, FALSE)

NextHeld ==
  \/ \E id \in Ids, content \in HeldTexts : SetContent(id, content)
  \/ \E items \in HeldLists, sync \in BOOLEAN : UpdateHeld(items, sync)
  \/ Return

SpecHeld == InitHeld /\ [][NextHeld]_vars

\* ------------------------------------------- an id that comes in twice
\* update_store takes any sequence of items: these lists may hold an id
\* more than once
DupTexts == {TextOne, TextTwo}

DupLists == SeqsUpTo({Item(id, text) : id \in Ids, text \in DupTexts}, MaxItems)

InitDup ==
  /\ store = BuiltStore
  /\ disk = Absent
  /\ last = Idle

UpdateDup(items, sync) ==
  /\ last = Idle
  /\ Update(items, sync, FALSE, MaxRows)

NextDup ==
  \/ \E items \in DupLists, sync \in BOOLEAN : UpdateDup(items, sync)
  \/ Return

SpecDup == InitDup /\ [][NextDup]_vars

\* ------------------------------------------------------------ the claims
IdsOf(items) == {items[i].id : i \in 1..Len(items)}
Range(seq) == {seq[i] : i \in 1..Len(seq)}

\* each row is the embedding of its item's content, as float32 holds it
RowsMatch(st) ==
  /\ Aligned(st)
  /\ \A i \in 1..Len(st.items) :
       astype_float32(st.vectors.rows[i])
         = astype_float32(Embedding(st.items[i].content))

\* the step is an update call that returned without raising
UpdateReturned == last'.op = "update" /\ last'.err = ""

\* C1: an update that returns, made on a store of as many rows as items
\* whose rows are the embeddings of its items' contents, leaves such a store
C1_Alignment == [][(RowsMatch(store) /\ UpdateReturned) => RowsMatch(store')]_vars

\* C2: after a full-mode update that returned ids, the ids in the store are
\* the ids that came in (the claim says so of every full-mode update that
\* returns)
C2_FullSyncDeletes ==
  (last.op = "update" /\ last.sync /\ last.err = "" /\ last.result # <<>>)
    => IdsOf(store.items) = IdsOf(last.items)

\* C4: the same update made once more returns the empty list and sends
\* nothing to the embedding API
C4_Idempotence ==
  (last.op = "update" /\ last.again)
    => (last.err = "" /\ last.result = <<>> /\ last.requests = <<>>)

\* C3: an additive update that returns keeps every stored id at its place,
\* leaves the items it did not embed and their rows as they were, puts an
\* embedded item whose id was stored at that id's place, and appends the
\* embedded items of new ids, with their rows, in the order they came in
AdditiveFrame ==
  LET old == store.items
      new == store'.items
      oldRows == store.vectors.rows
      newRows == store'.vectors.rows
      incoming == as_store_items(last'.items)
      done == Range(last'.result)
      isFresh(item) == item.id \in done /\ item.id \notin IdsOf(old)
      fresh == SelectSeq(incoming, isFresh)
  IN  /\ Len(new) = Len(old) + Len(fresh)
      /\ Len(newRows) = Len(oldRows) + Len(fresh)
      /\ \A j \in 1..Len(old) : new[j].id = old[j].id
      /\ \A j \in 1..Len(old) : old[j].id \notin done => new[j] = old[j]
      /\ \A j \in 1..Len(oldRows) :
           (j > Len(old) \/ old[j].id \notin done) => newRows[j] = oldRows[j]
      /\ \A j \in 1..Len(old) :
           old[j].id \in done =>
             /\ new[j] \in Range(incoming)
             /\ newRows[j] = astype_float32(Embedding(new[j].content))
      /\ \A k \in 1..Len(fresh) :
           /\ new[Len(old) + k] = fresh[k]
           /\ newRows[Len(oldRows) + k] = Embedding(fresh[k].content)

C5_ChangeDetection ==
  last.op = "diff" =>
    LET items == last.items
        idxs == last.result
    IN  /\ \A k \in 1..(Len(idxs) - 1) : idxs[k] < idxs[k + 1]
        /\ Range(idxs) \subseteq 1..Len(items)
        /\ \A i \in 1..Len(items) :
             i \in Range(idxs) <=>
               \/ items[i].id \notin IdsOf(store.items)
               \/ \E j \in 1..Len(store.items) :
                    /\ store.items[j].id = items[i].id
                    /\ store.items[j].content_hash # hash_content(items[i].content)
        /\ \A i \in 1..Len(items) :
             (\E j \in 1..Len(store.items) :
                /\ store.items[j].id = items[i].id
                /\ store.items[j].content = items[i].content)
               => i \notin Range(idxs)

\* of two items with stored ids, the second alone has changed and is reported
C5_Witness ==
  /\ last.op = "diff" /\ Len(last.items) = 2 /\ last.result = <<2>>
  /\ IdsOf(last.items) = IdsOf(store.items)
  /\ last.items[1].id # last.items[2].id

\* no item that came in is new or stored with another hash
NothingStale(items, st) ==
  \A i \in 1..Len(items) :
    \E j \in 1..Len(st.items) :
      /\ st.items[j].id = items[i].id
      /\ st.items[j].content_hash = hash_content(items[i].content)

OverLimit(items, st) ==
  \E i \in 1..Len(items) :
    /\ count_tokens(items[i].content) > INPUT_TOKEN_LIMIT
    /\ ~NothingStale(<<items[i]>>, st)

\* C7: an update whose batch holds an item over the limit raises, sends
\* nothing to the embedding API, stores nothing and does not write the file
C7_SizeLimit ==
  [][(last'.op = "update" /\ OverLimit(last'.items, store))
       => /\ last'.err # "" /\ last'.requests = <<>>
          /\ store' = store /\ disk' = disk /\ ~last'.wrote]_vars

\* an update of a new item within the limit and one over it has raised
C7_Witness ==
  /\ last.op = "update" /\ last.err = "ValueError" /\ last.requests = <<>>
  /\ Len(last.items) = 2
  /\ \E i, k \in 1..2 :
       /\ last.items[i].content = TextLong
       /\ last.items[k].content # TextLong
       /\ last.items[k].id \notin IdsOf(store.items)

\* loading the file gives the store in hand
Current(st, file) ==
  LET loaded == load_or_initialize_store(file)
  IN  loaded.err = "" /\ loaded.store = st

C9_EmptyStoreQuery ==
  (/\ last.op = "query"
   /\ (store.vectors.kind = "None" \/ store = initialize_empty_store(Path)))
    => last.err = "AssertionError"

\* the similarity of each stored item, and the stable descending ranking
ItemSims(prompt, st) ==
  [i \in 1..Len(st.items) |->
     Dot(st.vectors.rows[i], astype_float32(Embedding(prompt)), 1)]

Ahead(sims, i, j) == sims[i] > sims[j] \/ (sims[i] = sims[j] /\ i < j)

StableRanks(sims) ==
  [k \in 1..Len(sims) |->
     CHOOSE i \in 1..Len(sims) :
       Cardinality({j \in 1..Len(sims) : Ahead(sims, j, i)}) = k - 1]

\* C10: a query without filter returns the min(count, number of items) items
\* of highest similarity, highest first, equal ones in store order
C10_Ranking ==
  (last.op = "query" /\ ~last.filter.on /\ store.vectors.kind = "matrix"
   /\ Aligned(store))
    => LET ranks == StableRanks(ItemSims(last.prompt, store))
           n == Min2(last.count, Len(store.items))
       IN  /\ last.err = ""
           /\ last.result = [k \in 1..n |-> store.items[ranks[k]]]

\* C11: a query with a filter returns the first count items of the
\* descending ranking that the filter accepts, in ranking order: fewer than
\* count only when the ranking is exhausted, never more than count, never
\* an item the filter rejects
C11_Filtered ==
  (last.op = "query" /\ last.filter.on /\ store.vectors.kind = "matrix"
   /\ Aligned(store))
    => /\ last.err = ""
       /\ \E sorted \in ArgSorts(ItemSims(last.prompt, store)) :
            LET accepted(idx) == store.items[idx].id \in last.filter.accept
                passing == SelectSeq(Reverse(sorted), accepted)
                n == Min2(last.count, Len(passing))
            IN  last.result = [k \in 1..n |-> store.items[passing[k]]]

\* C12: load of a location with no file returns, without error, a store of
\* no items whose vectors are unset (None); load of a file that does not
\* parse raises and leaves the caller without a store from it
C12_Load ==
  last.op = "load" =>
    /\ disk.kind = "absent" =>
         /\ last.err = ""
         /\ store.abs_path = Path /\ store.items = <<>>
         /\ store.vectors.kind = "None"
    /\ disk.kind = "corrupt" => last.err # ""

\* C13: save_store of a store whose vectors are None leaves the file as it
\* was; of any other store it leaves a file of the store's items and one
\* vector for each of them, in order, from which load returns that store
C13_RoundTrip ==
  [][last'.op = "save" =>
       IF store.vectors.kind = "None"
       THEN disk' = disk /\ ~last'.wrote
       ELSE /\ last'.wrote
            /\ disk'.kind = "json"
            /\ disk'.items = store.items
            /\ Len(disk'.vectors) = Len(disk'.items)
            /\ Current(store, disk')]_vars

\* the stored positions whose id did not come in
Gone(items, st) ==
  {j \in 1..Len(st.items) : st.items[j].id \notin IdsOf(items)}

\* C14: a full-mode update that reaches the removal step with two or more
\* stored entries absent from the incoming items returns without error,
\* having removed those entries, item and row, and no other: every stored
\* id that came in is kept and no id that did not come in survives
C14_MultiRemoval ==
  [][(/\ last'.op = "update" /\ last'.sync
      /\ store.vectors.kind = "matrix" /\ Aligned(store)
      /\ ~NothingStale(last'.items, store)
      /\ Cardinality(Gone(last'.items, store)) >= 2)
       => /\ last'.err = ""
          /\ \A j \in 1..Len(store.items) :
               j \in Gone(last'.items, store)
                 <=> store.items[j].id \notin IdsOf(store'.items)
          /\ Aligned(store')]_vars

\* C15: an update with one or more items, all within the token limit, on
\* the store load returned for a location with no file returns without
\* error and leaves as many items and as many rows as came in, each row of
\* the length of an embedding
C15_FirstPopulation ==
  [][(/\ last'.op = "update"
      /\ store = initialize_empty_store(Path)
      /\ Len(last'.items) >= 1
      /\ ~OverLimit(last'.items, store))
       => /\ last'.err = ""
          /\ Len(store'.items) = Len(last'.items)
          /\ store'.vectors.kind = "matrix"
          /\ Len(store'.vectors.rows) = Len(last'.items)
          /\ \A r \in 1..Len(store'.vectors.rows) :
               Len(store'.vectors.rows[r]) = Len(Embedding(last'.items[r].content))]_vars

\* C16: an update changes the content_hash stored for an id only when it
\* reports the id and has put the embedding of the item's content in its
\* row, also when the caller passes again a dict whose content it changed
C16_HashVector ==
  [][last'.op = "update" =>
       \A j \in 1..Len(store.items), k \in 1..Len(store'.items) :
         (/\ store.items[j].id = store'.items[k].id
          /\ store.items[j].content_hash # store'.items[k].content_hash)
           => /\ store'.items[k].id \in Range(last'.result)
              /\ k <= Len(store'.vectors.rows)
              /\ store'.vectors.rows[k]
                   = astype_float32(Embedding(store'.items[k].content))]_vars

\* no two stored items have the same id
UniqueIds(st) ==
  \A i, j \in 1..Len(st.items) : i # j => st.items[i].id # st.items[j].id

\* C17: an update that returns, in either mode and for any incoming
\* sequence, one that holds an id twice included, leaves a store of unique
\* ids when it was given one
C17_UniqueIds == [][(UniqueIds(store) /\ UpdateReturned) => UniqueIds(store')]_vars

\* the positions, in order, of the items that are new or changed
StaleIdxs(items, st) ==
  LET isStale(i) == ~NothingStale(<<items[i]>>, st)
  IN  SelectSeq([i \in 1..Len(items) |-> i], isStale)

\* C18: an update with no stale item sends nothing; one with stale items
\* calls the embedder once, on the contents of the stale items in their
\* order: the embedder sends them as one batch, or sends nothing and raises
\* when one is over the limit; an update that returns returns the ids of
\* the stale items in that order
C18_OneBatch ==
  [][last'.op = "update" =>
       LET idxs == StaleIdxs(last'.items, store)
           batch == [k \in 1..Len(idxs) |-> last'.items[idxs[k]].content]
           ids == [k \in 1..Len(idxs) |-> last'.items[idxs[k]].id]
       IN  IF idxs = <<>> THEN last'.requests = <<>>
           ELSE IF \E k \in 1..Len(batch) : count_tokens(batch[k]) >= INPUT_TOKEN_LIMIT
           THEN last'.requests = <<>> /\ last'.err # ""
           ELSE /\ last'.requests = <<batch>>
                /\ last'.err = "" => last'.result = ids]_vars

\* of two items that came in, the second alone was stale: it alone was
\* sent, in one batch, and its id alone was returned
C18_Witness ==
  /\ last.op = "update" /\ last.err = "" /\ Len(last.items) = 2
  /\ last.requests = <<(<<last.items[2].content>>)>>
  /\ last.result = <<last.items[2].id>>
  /\ HasId(store.items, last.items[1].id)

\* C19: an update in which the embedding call raises, in either mode,
\* leaves the store's items and vectors as they were before the call
C19_EmbedFirst ==
  [][(last'.op = "update" /\ last'.err # "" /\ last'.requests = <<>>)
       => store'.items = store.items /\ store'.vectors = store.vectors]_vars

\* C20: a query with a filter that accepts every item returns what the
\* query without filter returns for the same prompt and count, count 0
\* included
C20_FilterEquivalence ==
  (/\ last.op = "query" /\ last.filter = Filter(Ids)
   /\ store.vectors.kind = "matrix" /\ Aligned(store))
    => /\ last.err = ""
       /\ \E sorted \in ArgSorts(Similarities(last.prompt, store).value) :
            last.result
              = query_store(last.prompt, last.count, store, NoFilter, sorted).result

====
